---- MODULE Spec2Model ----
(***************************************************************************)
(* The stack machine of src/machine.py: Memory (ports, data words and the  *)
(* program text in one list), DataPath (operand stack, head, ALU           *)
(* accumulator), ControlUnit (pc, tick counter, one microcode handler per  *)
(* opcode) and the loop of simulation().                                   *)
(*                                                                         *)
(* Representation of Python values:                                        *)
(*   int n            [int |-> n]                                          *)
(*   float num/den    [num |-> n, den |-> d]   (d > 0; only POW with a     *)
(*                    negative exponent produces one)                      *)
(*   instruction dict [opcode |-> "...", arg |-> value]  (arg optional)    *)
(*   str              the sequence of its code points, so that             *)
(*                    ord(s) = s[1] for a one-character s, chr(v) = <<v>>  *)
(* A Python list of n elements is a function on 0..n-1.                    *)
(*                                                                         *)
(* A handler is an operator on a machine record m (the fields of Memory,   *)
(* DataPath and ControlUnit, the handler's last returned value `val`, and  *)
(* st: "ok", "fault" for an uncaught exception, "stop" for StopIteration). *)
(* Every primitive leaves a record whose st is not "ok" untouched, which   *)
(* is how an exception skips the rest of the handler while keeping the     *)
(* assignments made before it.                                             *)
(***************************************************************************)
EXTENDS Integers, Sequences, FiniteSets, TLC

\* code, data_seg, limit: the arguments of simulation(); the other variables
\* are the fields of Memory, DataPath and ControlUnit, the local
\* instruct_counter, and how far simulation() has come (status).
\* file is the text of the program file of isa.py and loaded what read_code
\* made of it; code and data_seg are then the arguments of write_code.
VARIABLES code, data_seg, limit,
          data, data_address, memory_size, program_start, program_len,
          input_buffer, output_buffer, stack, head, alu, pc, tick,
          instruct_counter, status, file, loaded

vars == <<code, data_seg, limit,
          data, data_address, memory_size, program_start, program_len,
          input_buffer, output_buffer, stack, head, alu, pc, tick,
          instruct_counter, status, file, loaded>>

\* ------------------------------------------------------------------ bounds
\* largest instruction-count ceiling of a run
MaxLimit == 520
\* largest number of spare zero words between the minimum legal memory size
\* and the memory size of a run
MaxSlack == 1
\* largest number of operands a generated program pushes before its body
MaxPrefix == 3
\* largest number of pending input strings of a run
MaxInput == 2
\* largest number of instructions of a generated program file
MaxInstrs == 2
\* largest number of words of the data segment of a program file
MaxWords == 2

\* --------------------------------------------------------- program constants
StackSize == 256
ProgramBase == 128
MaxChr == 127

\* ------------------------------------------------------------------- values
I(n) == [int |-> n]
IsInt(v) == "int" \in DOMAIN v
IsFloat(v) == "num" \in DOMAIN v
IsDict(v) == "opcode" \in DOMAIN v

Opcode == [WR_DIR |-> "WRITE_DIR", WR_NDR |-> "WRITE_NDR",
           READ_DIR |-> "READ_DIR", READ_NDR |-> "READ_NDR",
           PRINT |-> "PRINT", BEGIN |-> "BEGIN", NOP |-> "NOP",
           MOD |-> "MOD", PLUS |-> "PLUS", MINUS |-> "MINUS",
           MULT |-> "MULT", DIV |-> "DIV", POW |-> "POW", LT |-> "LT",
           NEG |-> "NEG", INV |-> "INVERT",
           DUP |-> "DUP", OVER |-> "OVER", ROT |-> "ROT", SWAP |-> "SWAP",
           PUSH |-> "PUSH", DROP |-> "DROP",
           JMP |-> "JMP", JNT |-> "JNT", HALT |-> "HALT"]

OpcodeValues == {Opcode[f] : f \in DOMAIN Opcode}

\* Python list concatenation and repetition, lists being functions on 0..n-1
ListLen(l) == Cardinality(DOMAIN l)
ListOf(s) == [i \in 0..(Len(s) - 1) |-> s[i + 1]]
Concat(a, b) ==
    [i \in 0..(ListLen(a) + ListLen(b) - 1) |->
        IF i < ListLen(a) THEN a[i] ELSE b[i - ListLen(a)]]
Repeat(v, n) == [i \in 0..(n - 1) |-> v]

\* Python int(): identity on int, truncation toward zero on float
IntOf(v) ==
    IF IsInt(v) THEN v.int
    ELSE IF v.num >= 0 THEN v.num \div v.den ELSE -((-v.num) \div v.den)

\* v == n, v <= n, n <= v for a Python number v and an int n
NumEq(v, n) == IF IsInt(v) THEN v.int = n ELSE v.num = n * v.den
NumLe(v, n) == IF IsInt(v) THEN v.int <= n ELSE v.num <= n * v.den
NumGe(v, n) == IF IsInt(v) THEN v.int >= n ELSE v.num >= n * v.den

Abs(n) == IF n < 0 THEN -n ELSE n

\* the remainder with the sign of the dividend
PyMod_truncated(a, b) == IF a >= 0 THEN a % Abs(b) ELSE -((-a) % Abs(b))

\* Python a % b (b # 0): the result has the sign of the divisor
PyMod(a, b) == IF b > 0 THEN a % b ELSE -((-a) % (-b))

RECURSIVE IntPow(_, _)
IntPow(b, e) == IF e = 0 THEN 1 ELSE b * IntPow(b, e - 1)

\* Python b ** e on ints: an int for e >= 0, a float for e < 0 (b # 0)
PyPow(b, e) ==
    IF e >= 0 THEN I(IntPow(b, e))
    ELSE LET d == IntPow(b, -e)
         IN [num |-> IF d > 0 THEN 1 ELSE -1, den |-> Abs(d)]

\* str(n) of an int: the code points of its decimal digits
RECURSIVE Digits(_)
Digits(n) == IF n < 10 THEN <<48 + n>> ELSE Append(Digits(n \div 10), 48 + (n % 10))
StrInt(n) == IF n < 0 THEN <<45>> \o Digits(-n) ELSE Digits(n)

\* str(f) of a negative float -1/den, for the denominators whose repr is
\* the exact short decimal: "-1.0", "-0.5", "-0.25", "-0.125"
StrFloat(v) ==
    CASE v.num = -1 /\ v.den = 1 -> <<45, 49, 46, 48>>
      [] v.num = -1 /\ v.den = 2 -> <<45, 48, 46, 53>>
      [] v.num = -1 /\ v.den = 4 -> <<45, 48, 46, 50, 53>>
      [] v.num = -1 /\ v.den = 8 -> <<45, 48, 46, 49, 50, 53>>

Chr(n) == <<n>>
Ord(s) == s[1]

\* index of a Python list of n elements: a negative index counts from the end
PyIdx(i, n) == IF i < 0 THEN i + n ELSE i

\* ------------------------------------------------------------ machine record
M == [data |-> data, data_address |-> data_address,
      input_buffer |-> input_buffer, output_buffer |-> output_buffer,
      stack |-> stack, head |-> head, alu |-> alu, pc |-> pc, tick |-> tick,
      val |-> I(0), st |-> "ok"]

\* an uncaught AssertionError, TypeError, IndexError, KeyError, ZeroDivisionError
Fail(m) == [m EXCEPT !.st = "fault"]
\* StopIteration
Stop(m) == [m EXCEPT !.st = "stop"]

\* F applied to the value of x, x being evaluated once
Bind(x, F(_)) == CHOOSE r \in {F(y) : y \in {x}} : TRUE
\* the statement F after the statements that led to m: skipped once m raised
Then(m, F(_)) == Bind(m, LAMBDA y : IF y.st # "ok" THEN y ELSE F(y))

\* -------------------------------------------------------------------- Memory
latch_data_address(m, val) ==
    Then(m, LAMBDA y :
      IF IsDict(val) THEN Fail(y)
      ELSE IF NumGe(val, 0) /\ NumLe(val, memory_size)
           THEN [y EXCEPT !.data_address = val]
           ELSE Fail(y))

\* read with input_buffer.pop() in place of input_buffer.pop(0)
read_pop_last(m) ==
    Then(m, LAMBDA y :
      IF NumEq(y.data_address, 1) THEN Fail(y)
      ELSE IF ~NumEq(y.data_address, 0)
           THEN IF IsInt(y.data_address) /\ y.data_address.int \in DOMAIN y.data
                THEN [y EXCEPT !.val = y.data[y.data_address.int]]
                ELSE Fail(y)
      ELSE IF Len(y.input_buffer) = 0 THEN Stop(y)
      ELSE LET value_as_string == y.input_buffer[Len(y.input_buffer)]
               popped == [y EXCEPT !.input_buffer =
                            SubSeq(y.input_buffer, 1, Len(y.input_buffer) - 1)]
           IN IF Len(value_as_string) = 0 THEN Fail(popped)
              ELSE [popped EXCEPT !.data[0] = I(Ord(value_as_string)),
                                  !.val = I(Ord(value_as_string))])

read(m) ==
    Then(m, LAMBDA y :
      IF NumEq(y.data_address, 1) THEN Fail(y)
      ELSE IF ~NumEq(y.data_address, 0)
           THEN IF IsInt(y.data_address) /\ y.data_address.int \in DOMAIN y.data
                THEN [y EXCEPT !.val = y.data[y.data_address.int]]
                ELSE Fail(y)
      ELSE IF Len(y.input_buffer) = 0 THEN Stop(y)
      ELSE LET value_as_string == Head(y.input_buffer)
               popped == [y EXCEPT !.input_buffer = Tail(y.input_buffer)]
           IN IF Len(value_as_string) = 0 THEN Fail(popped)
              ELSE [popped EXCEPT !.data[0] = I(Ord(value_as_string)),
                                  !.val = I(Ord(value_as_string))])

\* the token of write() with 0 < value in place of 0 <= value
OutputToken_positive(value) ==
    IF IsInt(value)
    THEN IF 0 < value.int /\ value.int <= MaxChr THEN Chr(value.int)
         ELSE StrInt(value.int)
    ELSE StrFloat(value)

\* the token write() appends for an int or float value
OutputToken(value) ==
    IF IsInt(value)
    THEN IF 0 <= value.int /\ value.int <= MaxChr THEN Chr(value.int)
         ELSE StrInt(value.int)
    ELSE StrFloat(value)

write(m, value) ==
    Then(m, LAMBDA y :
      IF NumEq(y.data_address, 0) THEN Fail(y)
      ELSE IF ~NumEq(y.data_address, 1)
           THEN IF IsInt(y.data_address) /\ y.data_address.int \in DOMAIN y.data
                THEN [y EXCEPT !.data[y.data_address.int] = value]
                ELSE Fail(y)
      ELSE LET stored == [y EXCEPT !.data[1] = value]
           IN IF IsDict(value) THEN Fail(stored)
              ELSE IF IsFloat(value) /\ NumGe(value, 0) /\ NumLe(value, MaxChr)
                   THEN Fail(stored)
              ELSE [stored EXCEPT
                      !.output_buffer = Append(y.output_buffer, OutputToken(value))])

get_instruction(m, p) ==
    Then(m, LAMBDA y :
      IF ~(p < program_len) THEN Fail(y)
      ELSE IF ~(ProgramBase <= p + program_start /\ p + program_start <= memory_size)
           THEN Fail(y)
      ELSE IF p + program_start \in DOMAIN y.data
           THEN [y EXCEPT !.val = y.data[p + program_start]]
           ELSE Fail(y))

\* ------------------------------------------------------------------ DataPath
\* get_tos without the assert offset < head: Python then indexes from the end
get_tos_unchecked(m, offset) ==
    Then(m, LAMBDA y :
      IF ~(0 <= offset /\ offset <= 3) THEN Fail(y)
      ELSE [y EXCEPT !.val = y.stack[PyIdx(y.head - offset - 1, StackSize)]])

get_tos(m, offset) ==
    Then(m, LAMBDA y :
      IF ~(0 <= offset /\ offset <= 3) THEN Fail(y)
      ELSE IF ~(offset < y.head) THEN Fail(y)
      ELSE [y EXCEPT !.val = y.stack[PyIdx(y.head - offset - 1, StackSize)]])

latch_head(m, sel_val) ==
    Then(m, LAMBDA y :
      IF sel_val \notin {-1, -3, 1, -2} THEN Fail(y)
      ELSE IF 0 <= y.head + sel_val /\ y.head + sel_val < StackSize
           THEN [y EXCEPT !.head = y.head + sel_val]
           ELSE [y EXCEPT !.head = y.head + sel_val, !.st = "fault"])

push(m, v) ==
    latch_head(Then(m, LAMBDA y : [y EXCEPT !.stack[y.head] = v]), 1)

\* oe_stack with the selector ignored
oe_stack_no_increment(m, offset, selector) ==
    Then(m, LAMBDA y :
      IF ~(y.head >= 1) THEN Fail(y) ELSE get_tos(y, offset))

oe_stack(m, offset, selector) ==
    Then(m, LAMBDA y :
      IF ~(y.head >= 1) THEN Fail(y)
      ELSE Then(get_tos(y, offset), LAMBDA g :
             IF selector \in {Opcode.READ_NDR, Opcode.WR_NDR}
             THEN IF IsDict(g.val) THEN Fail(g)
                  ELSE IF IsInt(g.val) THEN [g EXCEPT !.val = I(g.val.int + 1)]
                  ELSE [g EXCEPT !.val = [num |-> g.val.num + g.val.den,
                                          den |-> g.val.den]]
             ELSE g))

\* is_true with every non-zero value true
is_true_nonzero(m) ==
    Then(get_tos(m, 0), LAMBDA g :
      Then(latch_head(g, -1), LAMBDA y :
        [y EXCEPT !.val = I(IF ~IsDict(g.val) /\ ~NumEq(g.val, 0) THEN -1 ELSE 0)]))

is_true(m) ==
    Then(get_tos(m, 0), LAMBDA g :
      Then(latch_head(g, -1), LAMBDA y :
        [y EXCEPT !.val = I(IF ~IsDict(g.val) /\ NumEq(g.val, -1) THEN -1 ELSE 0)]))

\* int(get_tos(offset)): a TypeError on a dict
int_tos(m, offset) ==
    Then(get_tos(m, offset), LAMBDA g :
      IF IsDict(g.val) THEN Fail(g) ELSE [g EXCEPT !.val = I(IntOf(g.val))])

latch_alu(m, op_sel) ==
    Then(m, LAMBDA y :
      LET t1 == int_tos(y, 1)
          t0 == int_tos(y, 0)
          a == t1.val.int
          b == t0.val.int
          bin == t1.st = "ok" /\ t0.st = "ok"
      IN IF op_sel = Opcode.READ_NDR
         THEN IF t1.st = "ok" THEN [y EXCEPT !.alu = I(a + 1)] ELSE Fail(y)
         ELSE IF op_sel = Opcode.MOD
         THEN IF bin /\ b # 0 THEN [y EXCEPT !.alu = I(PyMod(a, b))] ELSE Fail(y)
         ELSE IF op_sel = Opcode.PLUS
         THEN IF bin THEN [y EXCEPT !.alu = I(a + b)] ELSE Fail(y)
         ELSE IF op_sel = Opcode.MULT
         THEN IF bin THEN [y EXCEPT !.alu = I(a * b)] ELSE Fail(y)
         ELSE IF op_sel = Opcode.POW
         THEN IF bin /\ ~(a < 0 /\ b = 0) THEN [y EXCEPT !.alu = PyPow(b, a)]
              ELSE Fail(y)
         ELSE IF op_sel = Opcode.LT
         THEN IF bin THEN [y EXCEPT !.alu = I(IF a < b THEN -1 ELSE 0)]
              ELSE Fail(y)
         ELSE IF op_sel = Opcode.NEG
         THEN IF t0.st = "ok" THEN [y EXCEPT !.alu = I(b * (-1))] ELSE Fail(y)
         ELSE IF op_sel = Opcode.INV
         THEN IF t0.st = "ok" THEN [y EXCEPT !.alu = I((b + 1) * (-1))]
              ELSE Fail(y)
         ELSE IF op_sel = Opcode.JNT
         THEN IF t0.st = "ok" THEN [y EXCEPT !.alu = I(IF b = -1 THEN -1 ELSE 0)]
              ELSE Fail(y)
         ELSE y)

\* --------------------------------------------------------------- ControlUnit
do_tick(m) == Then(m, LAMBDA y : [y EXCEPT !.tick = y.tick + 1])

latch_pc(m, sel_next) ==
    Then(m, LAMBDA y :
      IF sel_next THEN [y EXCEPT !.pc = y.pc + 1]
      ELSE Then(get_instruction(y, y.pc), LAMBDA f :
             IF ~IsDict(f.val) THEN Fail(y)
             ELSE IF f.val.opcode \notin {Opcode.JMP, Opcode.JNT} THEN Fail(y)
             ELSE IF "arg" \notin DOMAIN f.val THEN Fail(y)
             ELSE [y EXCEPT !.pc = f.val.arg.int]))

micro_read_direct(m, instr) ==
    Bind(oe_stack(m, 0, "None"), LAMBDA top :
    Bind(read(do_tick(latch_head(latch_data_address(top, top.val), -1))), LAMBDA rd :
    do_tick(latch_pc(push(rd, rd.val), TRUE))))

\* micro_read_indirect writing the pointer back without the increment
micro_read_indirect_no_increment(m, instr) ==
    Bind(oe_stack(m, 0, "None"), LAMBDA a1 :
    Bind(read(do_tick(latch_data_address(a1, a1.val))), LAMBDA r1 :
    Bind(oe_stack(do_tick(push(r1, r1.val)), 0, "None"), LAMBDA a2 :
    Bind(read(do_tick(latch_data_address(a2, a2.val))), LAMBDA r2 :
    Bind(get_tos(do_tick(push(r2, r2.val)), 0), LAMBDA v1 :
    Bind(get_tos(v1, 1), LAMBDA v2 :
    Bind(get_tos(v2, 2), LAMBDA v3 :
    Bind(oe_stack(do_tick(push(push(push(latch_head(v3, -3), v1.val), v2.val),
                               v3.val)), 0, "None"), LAMBDA a3 :
    Bind(oe_stack(do_tick(latch_data_address(a3, a3.val)), 1, "None"),
         LAMBDA w :
    do_tick(latch_pc(latch_head(write(w, w.val), -2), TRUE)))))))))))

micro_read_indirect(m, instr) ==
    Bind(oe_stack(m, 0, "None"), LAMBDA a1 :
    Bind(read(do_tick(latch_data_address(a1, a1.val))), LAMBDA r1 :
    Bind(oe_stack(do_tick(push(r1, r1.val)), 0, "None"), LAMBDA a2 :
    Bind(read(do_tick(latch_data_address(a2, a2.val))), LAMBDA r2 :
    Bind(get_tos(do_tick(push(r2, r2.val)), 0), LAMBDA v1 :
    Bind(get_tos(v1, 1), LAMBDA v2 :
    Bind(get_tos(v2, 2), LAMBDA v3 :
    Bind(oe_stack(do_tick(push(push(push(latch_head(v3, -3), v1.val), v2.val),
                               v3.val)), 0, "None"), LAMBDA a3 :
    Bind(oe_stack(do_tick(latch_data_address(a3, a3.val)), 1, instr.opcode),
         LAMBDA w :
    do_tick(latch_pc(latch_head(write(w, w.val), -2), TRUE)))))))))))

micro_write_direct(m, instr) ==
    Bind(get_tos(m, 0), LAMBDA address :
    Bind(oe_stack(do_tick(latch_data_address(address, address.val)), 1, "None"),
         LAMBDA v :
    do_tick(latch_pc(latch_head(write(v, v.val), -2), TRUE))))

\* micro_write_indirect without the tick after the write of the value
micro_write_indirect_five_ticks(m, instr) ==
    Bind(oe_stack(m, 0, "None"), LAMBDA a1 :
    Bind(read(do_tick(latch_data_address(a1, a1.val))), LAMBDA r1 :
    Bind(oe_stack(do_tick(push(r1, r1.val)), 0, "None"), LAMBDA a2 :
    Bind(oe_stack(do_tick(latch_data_address(a2, a2.val)), 2, "None"), LAMBDA w1 :
    Bind(oe_stack(write(w1, w1.val), 1, "None"), LAMBDA a3 :
    Bind(oe_stack(do_tick(latch_data_address(a3, a3.val)), 0, instr.opcode),
         LAMBDA w2 :
    do_tick(latch_pc(latch_head(write(w2, w2.val), -3), TRUE))))))))

micro_write_indirect(m, instr) ==
    Bind(oe_stack(m, 0, "None"), LAMBDA a1 :
    Bind(read(do_tick(latch_data_address(a1, a1.val))), LAMBDA r1 :
    Bind(oe_stack(do_tick(push(r1, r1.val)), 0, "None"), LAMBDA a2 :
    Bind(oe_stack(do_tick(latch_data_address(a2, a2.val)), 2, "None"), LAMBDA w1 :
    Bind(oe_stack(do_tick(write(w1, w1.val)), 1, "None"), LAMBDA a3 :
    Bind(oe_stack(do_tick(latch_data_address(a3, a3.val)), 0, instr.opcode),
         LAMBDA w2 :
    do_tick(latch_pc(latch_head(write(w2, w2.val), -3), TRUE))))))))

micro_jump_if_not_true(m, instr) ==
    Bind(is_true(m), LAMBDA t : do_tick(latch_pc(t, t.val.int # 0)))

\* micro_halt with a tick before the StopIteration
micro_halt_tick(m, instr) == Stop(do_tick(m))

micro_halt(m, instr) == Stop(m)

micro_no_operation(m, instr) == do_tick(latch_pc(m, TRUE))

\* micro_alu_operation without the tick between the latch and the push
micro_alu_operation_one_tick(m, instr) ==
    Bind(latch_head(latch_alu(m, instr.opcode),
                    IF instr.opcode \in {Opcode.NEG, Opcode.INV}
                    THEN -1 ELSE -2), LAMBDA s1 :
    do_tick(latch_pc(push(s1, s1.alu), TRUE)))

\* micro_alu_operation with the accumulator cleared before a DIV
micro_alu_operation_div_clears(m, instr) ==
    Bind(do_tick(latch_head(latch_alu(m, instr.opcode),
                            IF instr.opcode \in {Opcode.NEG, Opcode.INV}
                            THEN -1 ELSE -2)), LAMBDA s1 :
    do_tick(latch_pc(push(s1, IF instr.opcode = Opcode.DIV THEN I(0) ELSE s1.alu),
                     TRUE)))

micro_alu_operation(m, instr) ==
    Bind(do_tick(latch_head(latch_alu(m, instr.opcode),
                            IF instr.opcode \in {Opcode.NEG, Opcode.INV}
                            THEN -1 ELSE -2)), LAMBDA s1 :
    do_tick(latch_pc(push(s1, s1.alu), TRUE)))

\* micro_rotate pushing the third element first: the top two exchanged
micro_rotate_exchange(m, instr) ==
    Bind(get_tos(m, 1), LAMBDA v1 :
    Bind(get_tos(v1, 0), LAMBDA v2 :
    Bind(get_tos(v2, 2), LAMBDA v3 :
    do_tick(latch_pc(
      push(push(push(latch_head(v3, -3), v3.val), v2.val), v1.val), TRUE)))))

micro_rotate(m, instr) ==
    Bind(get_tos(m, 1), LAMBDA v1 :
    Bind(get_tos(v1, 0), LAMBDA v2 :
    Bind(get_tos(v2, 2), LAMBDA v3 :
    do_tick(latch_pc(
      push(push(push(latch_head(v3, -3), v1.val), v2.val), v3.val), TRUE)))))

micro_duplicate(m, instr) ==
    Bind(get_tos(m, 0), LAMBDA v : do_tick(latch_pc(push(v, v.val), TRUE)))

micro_over(m, instr) ==
    Bind(get_tos(m, 1), LAMBDA v : do_tick(latch_pc(push(v, v.val), TRUE)))

micro_swap(m, instr) ==
    Bind(get_tos(m, 0), LAMBDA v1 :
    Bind(get_tos(v1, 1), LAMBDA v2 :
    do_tick(latch_pc(push(push(latch_head(v2, -2), v1.val), v2.val), TRUE))))

IsDigitStr(s) == Len(s) > 0 /\ \A i \in 1..Len(s) : s[i] \in 48..57

\* translator.is_number: an int, or the text of a decimal literal
is_number(a) ==
    \/ IsInt(a)
    \/ /\ "str" \in DOMAIN a
       /\ \/ IsDigitStr(a.str)
          \/ Len(a.str) > 1 /\ a.str[1] = 45 /\ IsDigitStr(Tail(a.str))

\* int(s) of a decimal literal
RECURSIVE ParseDigits(_)
ParseDigits(s) ==
    IF Len(s) = 0 THEN 0
    ELSE 10 * ParseDigits(SubSeq(s, 1, Len(s) - 1)) + (s[Len(s)] - 48)
ParseInt(a) ==
    IF IsInt(a) THEN a.int
    ELSE IF a.str[1] = 45 THEN -ParseDigits(Tail(a.str)) ELSE ParseDigits(a.str)

micro_push(m, instr) ==
    IF "arg" \notin DOMAIN instr THEN Fail(m)
    ELSE IF is_number(instr.arg)
         THEN do_tick(latch_pc(push(m, I(ParseInt(instr.arg))), TRUE))
    ELSE IF Len(instr.arg.str) = 1
         THEN do_tick(latch_pc(push(m, I(Ord(instr.arg.str))), TRUE))
    ELSE Fail(m)

micro_drop(m, instr) == do_tick(latch_pc(latch_head(m, -1), TRUE))

micro_jump(m, instr) ==
    IF "arg" \notin DOMAIN instr THEN Fail(m)
    ELSE do_tick([m EXCEPT !.pc = instr.arg.int])

\* the dispatch table of execute_micro_operation
Handlers ==
    {Opcode.READ_DIR, Opcode.READ_NDR, Opcode.WR_DIR, Opcode.WR_NDR,
     Opcode.JNT, Opcode.HALT, Opcode.BEGIN, Opcode.NOP,
     Opcode.MOD, Opcode.PLUS, Opcode.MULT, Opcode.LT, Opcode.DIV, Opcode.POW,
     Opcode.NEG, Opcode.INV, Opcode.ROT, Opcode.DUP, Opcode.OVER, Opcode.SWAP,
     Opcode.PUSH, Opcode.DROP, Opcode.JMP}

\* ------------------------------------------------------------- construction
Ins(op) == [opcode |-> op]
InsA(op, n) == [opcode |-> op, arg |-> I(n)]
InsS(op, s) == [opcode |-> op, arg |-> [str |-> s]]

Max(a, b) == IF a > b THEN a ELSE b

\* the memory list with the zero fill not reduced by len(data)
MemoryData_unreduced(size, program, dseg) ==
    Concat(Concat(dseg, Repeat(I(0), Max(0, size - ListLen(program)))), program)

\* Memory.__init__: data + [0] * (memory_size - len(program) - len(data)) + program
MemoryData(size, program, dseg) ==
    Concat(Concat(dseg, Repeat(I(0), Max(0, size - ListLen(program) - ListLen(dseg)))),
           program)

\* the asserts of Memory.__init__
MemoryAccepts(size, program) == size > 0 /\ size > ListLen(program) + ProgramBase

\* read_code has not been called
NotLoaded == [st |-> "none"]

\* the state after Memory, DataPath and ControlUnit are constructed
Construct(program, size, lim, inp, dseg) ==
    /\ MemoryAccepts(size, program)
    /\ code = program
    /\ data_seg = dseg
    /\ data = MemoryData(size, program, dseg)
    /\ data_address = I(0)
    /\ memory_size = size
    /\ program_start = size - ListLen(program)
    /\ program_len = ListLen(program)
    /\ input_buffer = inp
    /\ output_buffer = <<>>
    /\ stack = Repeat(I(0), StackSize)
    /\ head = 0
    /\ alu = I(0)
    /\ pc = 0
    /\ tick = 0
    /\ instruct_counter = 0
    /\ limit = lim
    /\ status = "run"
    /\ file = <<>>
    /\ loaded = NotLoaded

\* ------------------------------------------------------------------- inputs
\* pending input strings: sequences of one-character strings, length <= MaxInput
RECURSIVE SeqsUpTo(_, _)
SeqsUpTo(S, n) ==
    IF n = 0 THEN {<<>>}
    ELSE LET shorter == SeqsUpTo(S, n - 1)
         IN shorter \cup {Append(q, x) : q \in shorter, x \in S}
Inputs == SeqsUpTo({<<65>>, <<200>>}, MaxInput)

\* initial data segments: none, and one with the pointer mem[2] = 3, the
\* word mem[3] = 9 it points to and the self-pointer mem[4] = 4
NoData == ListOf(<<>>)
PointerData == ListOf(<<I(0), I(0), I(3), I(9), I(4)>>)
\* a data segment one word longer than memory_size - len(program)
LongData(size, program) == Repeat(I(5), size - ListLen(program) + 1)

\* generated programs: push a prefix of operands, run one instruction, halt
TopVals(size) == {-1, 0, 1, 2, 4, 200, size - 1, size}
DeepVals == {7}
Prefixes(size) ==
    {q \in SeqsUpTo(TopVals(size), MaxPrefix) : Len(q) <= 2}
    \cup {d \o q : d \in SeqsUpTo(DeepVals, MaxPrefix - 2) \ {<<>>},
                   q \in {t \in SeqsUpTo(TopVals(size), 2) : Len(t) = 2}}
Bodies(len) ==
    {Ins(op) : op \in OpcodeValues}
    \cup {InsA(Opcode.PUSH, 10), InsS(Opcode.PUSH, <<65>>),
          InsS(Opcode.PUSH, <<49, 48>>), InsS(Opcode.PUSH, <<65, 66>>)}
    \cup {InsA(op, t) : op \in {Opcode.JMP, Opcode.JNT}, t \in {-1, 0, len - 1, len}}

\* TLC integers are 32-bit: keep the exponent of a generated POW small
PowFits(prefix, body) ==
    (body.opcode = Opcode.POW /\ Len(prefix) >= 2) => prefix[Len(prefix) - 1] <= 4

UnitProgram(prefix, body) ==
    ListOf([i \in 1..Len(prefix) |-> InsA(Opcode.PUSH, prefix[i])]
           \o <<body, Ins(Opcode.HALT)>>)

\* hand-written programs: loops, port traffic, a missing handler, a rotation
\* above a fourth element, a DIV after another ALU instruction
Programs ==
    {ListOf(<<InsA(Opcode.JMP, 0)>>),
     ListOf(<<InsA(Opcode.PUSH, 1), InsA(Opcode.JMP, 0)>>),
     ListOf(<<InsA(Opcode.PUSH, 0), Ins(Opcode.READ_DIR), InsA(Opcode.PUSH, 1),
              Ins(Opcode.WR_DIR), InsA(Opcode.JMP, 0)>>),
     ListOf(<<InsA(Opcode.PUSH, 0), Ins(Opcode.READ_DIR), Ins(Opcode.DUP),
              InsA(Opcode.PUSH, 1), Ins(Opcode.WR_DIR), InsA(Opcode.PUSH, 66),
              Ins(Opcode.LT), InsA(Opcode.JNT, 0), Ins(Opcode.HALT)>>),
     ListOf(<<InsA(Opcode.PUSH, 2), InsA(Opcode.PUSH, 3), Ins(Opcode.PLUS),
              Ins(Opcode.MINUS), Ins(Opcode.HALT)>>),
     ListOf(<<Ins(Opcode.BEGIN), Ins(Opcode.NOP), Ins(Opcode.HALT)>>),
     ListOf(<<InsA(Opcode.PUSH, 5), InsA(Opcode.PUSH, 1), InsA(Opcode.PUSH, 2),
              InsA(Opcode.PUSH, 3), Ins(Opcode.ROT), Ins(Opcode.HALT)>>),
     ListOf(<<InsA(Opcode.PUSH, 2), InsA(Opcode.PUSH, 3), Ins(Opcode.MULT),
              InsA(Opcode.PUSH, 8), InsA(Opcode.PUSH, 4), Ins(Opcode.DIV),
              Ins(Opcode.HALT)>>)}

InitUnit ==
    \E k \in 0..MaxPrefix :
      LET len == k + 2
          size == len + ProgramBase + 1
      IN \E prefix \in {q \in Prefixes(size) : Len(q) = k}, body \in Bodies(len) :
           /\ PowFits(prefix, body)
           /\ Construct(UnitProgram(prefix, body), size, len + 1,
                        <<<<65>>, <<66>>>>, PointerData)

\* every ceiling with every input; the largest ceiling with one input only
InitPrograms ==
    \E program \in Programs, slack \in 0..MaxSlack, inp \in Inputs,
       lim \in {0, 2, 8 * (MaxInput + 1), MaxLimit} :
      LET size == ListLen(program) + ProgramBase + 1 + slack
      IN /\ lim = MaxLimit => inp = [i \in 1..MaxInput |-> <<65>>]
         /\ \/ Construct(program, size, lim, inp, NoData)
            \/ lim = 2 /\ Construct(program, size, lim, inp, PointerData)
            \/ lim = 2 /\ Construct(program, size, lim, inp,
                                    LongData(size, program))

Init == InitUnit \/ InitPrograms

\* ------------------------------------------------------------------ actions
\* the instruction decode_and_execute fetches in the current state
Fetched == get_instruction(M, pc)

\* the ceiling test off by one
LimitTest_strict(lim, counter) == lim < counter

\* the ceiling test at the head of the loop of simulation()
LimitTest(lim, counter) == lim <= counter

\* the loop of simulation() is at decode_and_execute with a dict fetched
Decoded(ops) ==
    /\ status = "run"
    /\ ~LimitTest(limit, instruct_counter)
    /\ Fetched.st = "ok"
    /\ IsDict(Fetched.val)
    /\ Fetched.val.opcode \in ops

\* the state after a handler returned or raised
Commit(res) ==
    \E r \in {res} :
    /\ data' = r.data
    /\ data_address' = r.data_address
    /\ input_buffer' = r.input_buffer
    /\ output_buffer' = r.output_buffer
    /\ stack' = r.stack
    /\ head' = r.head
    /\ alu' = r.alu
    /\ pc' = r.pc
    /\ tick' = r.tick
    /\ instruct_counter' = IF r.st = "ok" THEN instruct_counter + 1
                           ELSE instruct_counter
    /\ status' = CASE r.st = "ok" -> "run"
                   [] r.st = "stop" -> "stopped"
                   [] r.st = "fault" -> "fault"
    /\ UNCHANGED <<code, data_seg, limit, memory_size, program_start, program_len,
                   file, loaded>>

ReadDirect == Decoded({Opcode.READ_DIR}) /\ Commit(micro_read_direct(M, Fetched.val))
ReadIndirect == Decoded({Opcode.READ_NDR}) /\ Commit(micro_read_indirect(M, Fetched.val))
WriteDirect == Decoded({Opcode.WR_DIR}) /\ Commit(micro_write_direct(M, Fetched.val))
WriteIndirect == Decoded({Opcode.WR_NDR}) /\ Commit(micro_write_indirect(M, Fetched.val))
JumpIfNotTrue == Decoded({Opcode.JNT}) /\ Commit(micro_jump_if_not_true(M, Fetched.val))
Halt == Decoded({Opcode.HALT}) /\ Commit(micro_halt(M, Fetched.val))
NoOperation ==
    Decoded({Opcode.BEGIN, Opcode.NOP}) /\ Commit(micro_no_operation(M, Fetched.val))
AluOperation ==
    /\ Decoded({Opcode.MOD, Opcode.PLUS, Opcode.MULT, Opcode.LT, Opcode.DIV,
                Opcode.POW, Opcode.NEG, Opcode.INV})
    /\ Commit(micro_alu_operation(M, Fetched.val))
Rotate == Decoded({Opcode.ROT}) /\ Commit(micro_rotate(M, Fetched.val))
Duplicate == Decoded({Opcode.DUP}) /\ Commit(micro_duplicate(M, Fetched.val))
Over == Decoded({Opcode.OVER}) /\ Commit(micro_over(M, Fetched.val))
Swap == Decoded({Opcode.SWAP}) /\ Commit(micro_swap(M, Fetched.val))
Push == Decoded({Opcode.PUSH}) /\ Commit(micro_push(M, Fetched.val))
Drop == Decoded({Opcode.DROP}) /\ Commit(micro_drop(M, Fetched.val))
Jump == Decoded({Opcode.JMP}) /\ Commit(micro_jump(M, Fetched.val))

\* handlers.get(opcode) is None: nothing runs, the instruction is counted
NoHandler == Decoded(OpcodeValues \ Handlers) /\ Commit(M)

\* get_instruction raises, or the word fetched is not a dict
FetchFault ==
    /\ status = "run"
    /\ ~LimitTest(limit, instruct_counter)
    /\ Fetched.st # "ok" \/ ~IsDict(Fetched.val)
    /\ Commit(Fail(M))

\* the ceiling is reached: "Too long execution!" is logged, the loop breaks
LimitReached ==
    /\ status = "run"
    /\ LimitTest(limit, instruct_counter)
    /\ status' = "limit"
    /\ UNCHANGED <<code, data_seg, limit,
                   data, data_address, memory_size, program_start, program_len,
                   input_buffer, output_buffer, stack, head, alu, pc, tick,
                   instruct_counter, file, loaded>>

Next ==
    \/ ReadDirect \/ ReadIndirect \/ WriteDirect \/ WriteIndirect
    \/ JumpIfNotTrue \/ Halt \/ NoOperation \/ AluOperation
    \/ Rotate \/ Duplicate \/ Over \/ Swap \/ Push \/ Drop \/ Jump
    \/ NoHandler \/ FetchFault \/ LimitReached

Spec == Init /\ [][Next]_vars

\* simulation() is one thread that runs its loop without ever waiting
LiveSpec == Spec /\ WF_vars(Next)

\* simulation() has returned (output_buffer, instruct_counter, tick)
Returned == status \in {"stopped", "limit"}

\* ------------------------------------------------------------------- isa.py
\* A text is the sequence of its code points.
\* Term(line_num, com, arg), the namedtuple
Term(l, c, a) == [line_num |-> l, com |-> c, arg |-> a]
IsTerm(v) == "line_num" \in DOMAIN v
IsStr(v) == "str" \in DOMAIN v
IsList(v) == "list" \in DOMAIN v

\* Opcode.value as text
OpcodeText(op) ==
    CASE op = "WRITE_DIR" -> <<87, 82, 73, 84, 69, 95, 68, 73, 82>>
      [] op = "WRITE_NDR" -> <<87, 82, 73, 84, 69, 95, 78, 68, 82>>
      [] op = "READ_DIR" -> <<82, 69, 65, 68, 95, 68, 73, 82>>
      [] op = "READ_NDR" -> <<82, 69, 65, 68, 95, 78, 68, 82>>
      [] op = "PRINT" -> <<80, 82, 73, 78, 84>>
      [] op = "BEGIN" -> <<66, 69, 71, 73, 78>>
      [] op = "NOP" -> <<78, 79, 80>>
      [] op = "MOD" -> <<77, 79, 68>>
      [] op = "PLUS" -> <<80, 76, 85, 83>>
      [] op = "MINUS" -> <<77, 73, 78, 85, 83>>
      [] op = "MULT" -> <<77, 85, 76, 84>>
      [] op = "DIV" -> <<68, 73, 86>>
      [] op = "POW" -> <<80, 79, 87>>
      [] op = "LT" -> <<76, 84>>
      [] op = "NEG" -> <<78, 69, 71>>
      [] op = "INVERT" -> <<73, 78, 86, 69, 82, 84>>
      [] op = "DUP" -> <<68, 85, 80>>
      [] op = "OVER" -> <<79, 86, 69, 82>>
      [] op = "ROT" -> <<82, 79, 84>>
      [] op = "SWAP" -> <<83, 87, 65, 80>>
      [] op = "PUSH" -> <<80, 85, 83, 72>>
      [] op = "DROP" -> <<68, 82, 79, 80>>
      [] op = "JMP" -> <<74, 77, 80>>
      [] op = "JNT" -> <<74, 78, 84>>
      [] op = "HALT" -> <<72, 65, 76, 84>>

\* the dict keys of an instruction as text: "opcode", "arg", "term"
KeyText(k) ==
    CASE k = "opcode" -> <<111, 112, 99, 111, 100, 101>>
      [] k = "arg" -> <<97, 114, 103>>
      [] k = "term" -> <<116, 101, 114, 109>>
Keys == <<"opcode", "arg", "term">>

Spaces(n) == [i \in 1..n |-> 32]

\* json.dumps of a str: quoted, with ", \ and the newline escaped
RECURSIVE Escape(_)
Escape(s) ==
    IF Len(s) = 0 THEN <<>>
    ELSE (CASE Head(s) = 34 -> <<92, 34>>
            [] Head(s) = 92 -> <<92, 92>>
            [] Head(s) = 10 -> <<92, 110>>
            [] OTHER -> <<Head(s)>>) \o Escape(Tail(s))
DumpsStr(s) == <<34>> \o Escape(s) \o <<34>>

\* the texts joined by ",\n" and the indentation of level lvl
RECURSIVE JoinItems(_, _)
JoinItems(texts, lvl) ==
    IF Len(texts) = 1 THEN texts[1]
    ELSE texts[1] \o <<44, 10>> \o Spaces(4 * lvl) \o JoinItems(Tail(texts), lvl)

\* json.dumps(.., indent=4) of a container whose items are already text,
\* lvl being the nesting level of the container
DumpsContainer(open, close, texts, lvl) ==
    IF Len(texts) = 0 THEN <<open, close>>
    ELSE <<open, 10>> \o Spaces(4 * (lvl + 1)) \o JoinItems(texts, lvl + 1)
         \o <<10>> \o Spaces(4 * lvl) \o <<close>>

\* json.dumps of an int or a str
DumpsScalar(v) == IF IsInt(v) THEN StrInt(v.int) ELSE DumpsStr(v.str)

\* a Term is written as the array of its fields
DumpsTerm(t, lvl) ==
    DumpsContainer(91, 93, <<DumpsScalar(t.line_num), DumpsScalar(t.com),
                             DumpsScalar(t.arg)>>, lvl)

\* one member of an instruction dict; an Opcode is a str and written as one
DumpsMember(instr, k, lvl) ==
    DumpsStr(KeyText(k)) \o <<58, 32>> \o
    (CASE k = "opcode" -> DumpsStr(OpcodeText(instr.opcode))
       [] k = "arg" -> DumpsScalar(instr.arg)
       [] k = "term" -> DumpsTerm(instr.term, lvl))

DumpsInstr(instr, lvl) ==
    DumpsContainer(123, 125,
        [i \in 1..Cardinality(DOMAIN instr) |->
            DumpsMember(instr, SelectSeq(Keys, LAMBDA k : k \in DOMAIN instr)[i],
                        lvl + 1)],
        lvl)

\* json.dumps(l, indent=4) of a list of data words or of instructions
json_dumps(l) ==
    DumpsContainer(91, 93,
        [i \in 1..ListLen(l) |->
            IF IsDict(l[i - 1]) THEN DumpsInstr(l[i - 1], 1)
            ELSE DumpsScalar(l[i - 1])],
        0)

\* write_code: the text of the file
write_code(program, dseg) ==
    (IF ListLen(dseg) # 0
     THEN <<100, 97, 116, 97, 58, 32>> \o json_dumps(dseg) \o <<10>>
     ELSE <<>>)
    \o json_dumps(program)

\* json.loads, a recursive-descent parser: arrays become [list |-> ..],
\* objects records, strings [str |-> ..], integers [int |-> ..]
NoParse == [ok |-> FALSE]
Parsed(v, p) == [ok |-> TRUE, val |-> v, pos |-> p]

RECURSIVE SkipWs(_, _)
SkipWs(t, i) ==
    IF i <= Len(t) /\ t[i] \in {32, 10, 13, 9} THEN SkipWs(t, i + 1) ELSE i

RECURSIVE ScanDigits(_, _)
ScanDigits(t, i) ==
    IF i <= Len(t) /\ t[i] \in 48..57 THEN ScanDigits(t, i + 1) ELSE i

ParseNumber(t, i) ==
    LET s == IF t[i] = 45 THEN i + 1 ELSE i
        e == ScanDigits(t, s)
    IN IF e = s \/ (e - s > 1 /\ t[s] = 48) THEN NoParse
       ELSE Parsed(I(ParseInt([str |-> SubSeq(t, i, e - 1)])), e)

RECURSIVE ScanString(_, _, _)
ScanString(t, i, acc) ==
    IF i > Len(t) THEN NoParse
    ELSE IF t[i] = 34 THEN Parsed([str |-> acc], i + 1)
    ELSE IF t[i] = 92
         THEN IF i + 1 > Len(t) THEN NoParse
              ELSE IF t[i + 1] \in {34, 92, 47}
                   THEN ScanString(t, i + 2, Append(acc, t[i + 1]))
              ELSE IF t[i + 1] = 110 THEN ScanString(t, i + 2, Append(acc, 10))
              ELSE NoParse
    ELSE IF t[i] < 32 THEN NoParse
    ELSE ScanString(t, i + 1, Append(acc, t[i]))

\* the key of KeyText with this text, "?" for any other key
KeyOf(s) ==
    IF \E k \in {"opcode", "arg", "term"} : KeyText(k) = s
    THEN CHOOSE k \in {"opcode", "arg", "term"} : KeyText(k) = s
    ELSE "?"

\* the dict of a sequence of <<key, value>> members: the last one of a key wins
DictOf(members) ==
    [k \in {members[i][1] : i \in 1..Len(members)} |->
        LET last == CHOOSE i \in 1..Len(members) :
                      /\ members[i][1] = k
                      /\ \A j \in (i + 1)..Len(members) : members[j][1] # k
        IN members[last][2]]

RECURSIVE ParseValue(_, _), ParseItems(_, _, _), ParseMembers(_, _, _)
ParseValue(t, i) ==
    IF i > Len(t) THEN NoParse
    ELSE IF t[i] = 91
         THEN Bind(SkipWs(t, i + 1), LAMBDA j :
                IF j <= Len(t) /\ t[j] = 93 THEN Parsed([list |-> <<>>], j + 1)
                ELSE ParseItems(t, j, <<>>))
    ELSE IF t[i] = 123
         THEN Bind(SkipWs(t, i + 1), LAMBDA j :
                IF j <= Len(t) /\ t[j] = 125 THEN Parsed(DictOf(<<>>), j + 1)
                ELSE ParseMembers(t, j, <<>>))
    ELSE IF t[i] = 34 THEN ScanString(t, i + 1, <<>>)
    ELSE IF t[i] = 45 \/ t[i] \in 48..57 THEN ParseNumber(t, i)
    ELSE NoParse
ParseItems(t, i, acc) ==
    Bind(ParseValue(t, i), LAMBDA v :
      IF ~v.ok THEN NoParse
      ELSE Bind(SkipWs(t, v.pos), LAMBDA j :
             IF j > Len(t) THEN NoParse
             ELSE IF t[j] = 44
                  THEN ParseItems(t, SkipWs(t, j + 1), Append(acc, v.val))
             ELSE IF t[j] = 93 THEN Parsed([list |-> Append(acc, v.val)], j + 1)
             ELSE NoParse))
ParseMembers(t, i, acc) ==
    IF i > Len(t) \/ t[i] # 34 THEN NoParse
    ELSE Bind(ScanString(t, i + 1, <<>>), LAMBDA k :
      IF ~k.ok THEN NoParse
      ELSE Bind(SkipWs(t, k.pos), LAMBDA c :
        IF c > Len(t) \/ t[c] # 58 THEN NoParse
        ELSE Bind(ParseValue(t, SkipWs(t, c + 1)), LAMBDA v :
          IF ~v.ok THEN NoParse
          ELSE Bind(SkipWs(t, v.pos), LAMBDA j :
            IF j > Len(t) THEN NoParse
            ELSE IF t[j] = 44
                 THEN ParseMembers(t, SkipWs(t, j + 1),
                                   Append(acc, <<KeyOf(k.val.str), v.val>>))
            ELSE IF t[j] = 125
                 THEN Parsed(DictOf(Append(acc, <<KeyOf(k.val.str), v.val>>)), j + 1)
            ELSE NoParse))))

\* json.loads(text): a JSONDecodeError unless the whole text is one value
json_loads(t) ==
    Bind(ParseValue(t, SkipWs(t, 1)), LAMBDA v :
      IF v.ok /\ SkipWs(t, v.pos) = Len(t) + 1 THEN v ELSE NoParse)

\* str methods: sub in t, t.split(sep), t.replace(old, new)
Occurrences(t, sub) ==
    {i \in 1..(Len(t) - Len(sub) + 1) : SubSeq(t, i, i + Len(sub) - 1) = sub}
Contains(t, sub) == Occurrences(t, sub) # {}
First(S) == CHOOSE i \in S : \A j \in S : i <= j
RECURSIVE Split(_, _)
Split(t, sep) ==
    Bind(Occurrences(t, sep), LAMBDA occ :
      IF occ = {} THEN <<t>>
      ELSE <<SubSeq(t, 1, First(occ) - 1)>>
           \o Split(SubSeq(t, First(occ) + Len(sep), Len(t)), sep))
RECURSIVE Replace(_, _, _)
Replace(t, old, new) ==
    Bind(Occurrences(t, old), LAMBDA occ :
      IF occ = {} THEN t
      ELSE SubSeq(t, 1, First(occ) - 1) \o new
           \o Replace(SubSeq(t, First(occ) + Len(old), Len(t)), old, new))

\* file.read() of a file object at position pos: the rest of the text
FileRead(content, pos) == SubSeq(content, pos + 1, Len(content))

\* read_code raised (IndexError, JSONDecodeError, TypeError, KeyError,
\* ValueError or UnboundLocalError)
Unreadable == [st |-> "fault"]

\* Opcode(text): the member with this value
IsOpcodeText(s) == \E op \in OpcodeValues : OpcodeText(op) = s
OpcodeOf(s) == CHOOSE op \in OpcodeValues : OpcodeText(op) = s

\* the body of the loop `for instr in code` succeeds on this element
Rehydrates(instr) ==
    /\ DOMAIN instr \subseteq {"opcode", "arg", "term", "?"}
    /\ "opcode" \in DOMAIN instr
    /\ IsStr(instr.opcode) /\ IsOpcodeText(instr.opcode.str)
    /\ "term" \in DOMAIN instr => IsList(instr.term) /\ Len(instr.term.list) >= 3

\* the element after the body of the loop
Rehydrated(instr) ==
    [k \in DOMAIN instr |->
        IF k = "opcode" THEN OpcodeOf(instr.opcode.str)
        ELSE IF k = "term"
             THEN Term(instr.term.list[1], instr.term.list[2], instr.term.list[3])
        ELSE instr[k]]

\* a parsed value as the Python object returned: a list is a list
PyValue(v) == IF IsList(v) THEN ListOf(v.list) ELSE v

\* the loop of read_code and its return; dbound tells whether the name
\* `data` was ever assigned
Rehydrate(c, dbound, d) ==
    IF ~IsList(c) THEN Unreadable
    ELSE IF \E i \in 1..Len(c.list) : ~Rehydrates(c.list[i]) THEN Unreadable
    ELSE IF ~dbound THEN Unreadable
    ELSE [st |-> "ok",
          code |-> ListOf([i \in 1..Len(c.list) |-> Rehydrated(c.list[i])]),
          data |-> PyValue(d)]

read_code(content) ==
    Bind(FileRead(content, 0), LAMBDA full :
      IF Contains(full, <<100, 97, 116, 97>>)
      THEN Bind(Split(full, <<93, 10, 91>>), LAMBDA split_content :
             IF Len(split_content) < 2 THEN Unreadable
             ELSE Bind(json_loads(Replace(split_content[1],
                                          <<100, 97, 116, 97, 58, 32>>, <<>>)
                                  \o <<93>>), LAMBDA d :
                  IF ~d.ok THEN Unreadable
                  ELSE Bind(json_loads(<<91>> \o split_content[2]), LAMBDA c :
                       IF ~c.ok THEN Unreadable
                       ELSE Rehydrate(c.val, TRUE, d.val))))
      ELSE Bind(json_loads(FileRead(content, Len(content))), LAMBDA c :
             IF ~c.ok THEN Unreadable
             ELSE Rehydrate(c.val, FALSE, I(0))))

\* no Memory, DataPath or ControlUnit exists while the file is handled
NoMachine ==
    /\ limit = 0
    /\ data = ListOf(<<>>)
    /\ data_address = I(0)
    /\ memory_size = 0
    /\ program_start = 0
    /\ program_len = 0
    /\ input_buffer = <<>>
    /\ output_buffer = <<>>
    /\ stack = Repeat(I(0), StackSize)
    /\ head = 0
    /\ alu = I(0)
    /\ pc = 0
    /\ tick = 0
    /\ instruct_counter = 0

\* instructions to write: arguments and terms with quotes, a backslash, a
\* newline, brackets and the word "data"; an instruction without a term
CodecInstrs ==
    {[opcode |-> Opcode.PUSH, arg |-> I(10),
      term |-> Term(I(1), I(1), [str |-> <<49, 48>>])],
     [opcode |-> Opcode.PUSH, arg |-> [str |-> <<100, 97, 116, 97, 58, 32>>],
      term |-> Term(I(2), I(1), [str |-> <<100, 97, 116, 97>>])],
     [opcode |-> Opcode.PUSH, arg |-> [str |-> <<93, 10, 91>>],
      term |-> Term(I(1), I(2), [str |-> <<34, 92>>])],
     InsA(Opcode.JMP, 0)}
CodecPrograms ==
    {ListOf(q) : q \in SeqsUpTo(CodecInstrs, MaxInstrs)}
    \cup {ListOf(<<[opcode |-> op, term |-> Term(I(3), I(1), [str |-> <<104>>])]>>) :
            op \in OpcodeValues}
CodecData == {ListOf(q) : q \in SeqsUpTo({I(0), I(65), I(-3)}, MaxWords)}

CodecInit ==
    \E program \in CodecPrograms, dseg \in CodecData :
      /\ code = program
      /\ data_seg = dseg
      /\ file = <<>>
      /\ loaded = NotLoaded
      /\ status = "translated"
      /\ NoMachine

\* the translator stores its result: write_code(filename, code, data)
WriteCode ==
    /\ status = "translated"
    /\ file' = write_code(code, data_seg)
    /\ status' = "written"
    /\ UNCHANGED <<code, data_seg, limit,
                   data, data_address, memory_size, program_start, program_len,
                   input_buffer, output_buffer, stack, head, alu, pc, tick,
                   instruct_counter, loaded>>

\* main() loads the file: read_code(code_file)
ReadCode ==
    /\ status = "written"
    /\ loaded' = read_code(file)
    /\ status' = IF loaded'.st = "ok" THEN "loaded" ELSE "unreadable"
    /\ UNCHANGED <<code, data_seg, limit,
                   data, data_address, memory_size, program_start, program_len,
                   input_buffer, output_buffer, stack, head, alu, pc, tick,
                   instruct_counter, file>>

CodecNext == WriteCode \/ ReadCode

CodecSpec == CodecInit /\ [][CodecNext]_vars

\* the instruction at pc when it is a dict, for the formulas below
AtOpcode(op) == Fetched.st = "ok" /\ IsDict(Fetched.val) /\ Fetched.val.opcode = op

IsPrefix(a, b) == Len(a) <= Len(b) /\ SubSeq(b, 1, Len(a)) = a
IsSuffix(a, b) == Len(a) <= Len(b) /\ SubSeq(b, Len(b) - Len(a) + 1, Len(b)) = a

\* ---------------------------------------------------------------------- C1
\* C1: stack safety.  In every state of a run that has not aborted on an
\* assertion the head satisfies 0 <= head < capacity (256), and for every
\* offset get_tos(offset) either fails (always when offset >= head) or
\* returns the slot head - offset - 1, whose index lies in 0..head-1.
StackSafety ==
    /\ status # "fault" => 0 <= head /\ head < StackSize
    /\ \A offset \in 0..3 :
         LET g == get_tos(M, offset)
             slot == PyIdx(head - offset - 1, StackSize)
         IN /\ offset >= head => g.st = "fault"
            /\ g.st = "ok" => 0 <= slot /\ slot < head /\ g.val = stack[slot]

\* the stack holds capacity - 1 elements, the most it can, and the run goes on
StackSafetyWitness == status = "run" /\ head = StackSize - 1 /\ instruct_counter > 0

\* ---------------------------------------------------------------------- C2
\* C2: the instruction-count ceiling bounds every run.  Every run comes to an
\* end; a run that returns has counted at most `limit` instructions; a run
\* that neither halts, nor faults, nor reads exhausted input ends by the
\* ceiling, a normal return with exactly `limit` instructions counted.
CeilingBoundsRun ==
    /\ <>(status # "run")
    /\ [](Returned => instruct_counter <= limit)
    /\ [](status = "limit" => instruct_counter = limit)
    /\ [](instruct_counter <= limit)

\* the self-jump (or another endless loop) was cut off at the largest ceiling
CeilingWitness ==
    status = "limit" /\ limit = MaxLimit /\ instruct_counter = MaxLimit /\ tick = MaxLimit

\* ---------------------------------------------------------------------- C4
\* READ_DIR is fetched with the address 0 on top of the stack
PortRead ==
    Decoded({Opcode.READ_DIR}) /\ head >= 1 /\ stack[head - 1] = I(0)

\* C4: input port.  A read at address 0 with pending input removes exactly
\* the first pending character, returns its character code (READ_DIR pushes
\* it in place of the address) and records it at address 0; with no pending
\* input it ends the run normally, the output being what was appended
\* before; no step removes input other than from the front of the queue.
InputPort ==
    [][/\ (PortRead /\ input_buffer # <<>>) =>
            /\ input_buffer' = Tail(input_buffer)
            /\ data'[0] = I(Head(input_buffer)[1])
            /\ head' = head
            /\ stack'[head' - 1] = I(Head(input_buffer)[1])
            /\ status' = "run"
       /\ (PortRead /\ input_buffer = <<>>) =>
            /\ status' = "stopped"
            /\ output_buffer' = output_buffer
            /\ instruct_counter' = instruct_counter
       /\ IsSuffix(input_buffer', input_buffer)
      ]_vars

\* both pending characters were read in order and copied out, and the next
\* read of the port found the queue empty
InputPortWitness ==
    /\ status = "stopped" /\ AtOpcode(Opcode.READ_DIR)
    /\ input_buffer = <<>> /\ data[0] = I(200)
    /\ output_buffer = << <<65>>, <<50, 48, 48>> >>

\* ---------------------------------------------------------------------- C5
\* WR_DIR is fetched with the address 1 on top of the stack and an int below
PortWrite ==
    /\ Decoded({Opcode.WR_DIR}) /\ head >= 2
    /\ stack[head - 1] = I(1) /\ IsInt(stack[head - 2])

\* C5: output port.  A write of the int v at address 1 stores v at address 1
\* and appends exactly one token, the one-character string chr(v) when
\* 0 <= v <= 127 and the decimal string of v otherwise (65 gives "A", 200
\* gives "200"); no step changes, reorders or removes earlier tokens.
OutputPort ==
    [][/\ PortWrite =>
            LET v == stack[head - 2].int
            IN /\ data'[1] = I(v)
               /\ output_buffer' =
                    Append(output_buffer,
                           IF 0 <= v /\ v <= 127 THEN <<v>> ELSE StrInt(v))
               /\ v = 200 => output_buffer'[Len(output_buffer')] = <<50, 48, 48>>
               /\ v = -1 => output_buffer'[Len(output_buffer')] = <<45, 49>>
               /\ status' = "run"
       /\ IsPrefix(output_buffer, output_buffer')
      ]_vars

\* "A" and then "200" were written to the port
OutputPortWitness ==
    /\ Len(output_buffer) = 2 /\ data[1] = I(200)
    /\ output_buffer[1] = <<65>> /\ output_buffer[2] = <<50, 48, 48>>

\* ---------------------------------------------------------------------- C6
\* C6: program-counter latch and exhaustive dispatch.  Every declared opcode
\* has a handler, and an instruction that completes leaves pc + 1 in the
\* program counter, except JMP (its argument) and JNT (pc + 1 when the
\* popped value is true, -1, and its argument otherwise); HALT latches
\* nothing.
PcLatchAllOpcodes ==
    [][\A op \in OpcodeValues :
         Decoded({op}) =>
           /\ op \in Handlers
           /\ op = Opcode.HALT => pc' = pc
           /\ (op # Opcode.HALT /\ status' = "run") =>
                pc' = IF op = Opcode.JMP THEN Fetched.val.arg.int
                      ELSE IF op = Opcode.JNT /\ stack[head - 1] # I(-1)
                           THEN Fetched.val.arg.int
                      ELSE pc + 1
      ]_vars

\* ---------------------------------------------------------------------- C7
\* the tick table of the opcodes without indirect addressing
TickCost(op) ==
    CASE op \in {Opcode.READ_DIR, Opcode.WR_DIR} -> 2
      [] op \in {Opcode.JNT, Opcode.JMP, Opcode.BEGIN, Opcode.NOP} -> 1
      [] op \in {Opcode.MOD, Opcode.PLUS, Opcode.MULT, Opcode.LT, Opcode.DIV,
                 Opcode.POW, Opcode.NEG, Opcode.INV} -> 2
      [] op \in {Opcode.ROT, Opcode.DUP, Opcode.OVER, Opcode.SWAP, Opcode.PUSH,
                 Opcode.DROP} -> 1

Tabulated ==
    Handlers \ {Opcode.READ_NDR, Opcode.WR_NDR, Opcode.HALT}

\* C7: tick cost.  An instruction of a tabulated opcode that completes adds
\* exactly the tabulated number of ticks, HALT adds none, and no step makes
\* the tick counter smaller.
TickCosts ==
    [][/\ \A op \in Tabulated :
            (Decoded({op}) /\ status' = "run") => tick' = tick + TickCost(op)
       /\ Decoded({Opcode.HALT}) => tick' = tick
       /\ tick' >= tick
      ]_vars

\* PUSH 200, PUSH 2, MULT, HALT ran: three instructions, 1 + 1 + 2 ticks
TickCostsWitness ==
    status = "stopped" /\ alu = I(400) /\ instruct_counter = 3 /\ tick = 4

\* ---------------------------------------------------------------------- C8
\* C8 as claimed: a READ_NDR that completes adds exactly 5 ticks, and so
\* does a WR_NDR that completes.
IndirectFiveTicks ==
    [][/\ (Decoded({Opcode.READ_NDR}) /\ status' = "run") => tick' = tick + 5
       /\ (Decoded({Opcode.WR_NDR}) /\ status' = "run") => tick' = tick + 5
      ]_vars

\* C8 amended: a READ_NDR that completes adds exactly 7 ticks, a WR_NDR that
\* completes adds exactly 6.
IndirectTicks ==
    [][/\ (Decoded({Opcode.READ_NDR}) /\ status' = "run") => tick' = tick + 7
       /\ (Decoded({Opcode.WR_NDR}) /\ status' = "run") => tick' = tick + 6
      ]_vars

\* PUSH 200, PUSH 2, WR_NDR, HALT ran: mem[2] = 3 was the pointer, 200 went
\* to address 3, the pointer is 4, and the ticks are 1 + 1 + 6
IndirectTicksWitness ==
    /\ status = "stopped" /\ instruct_counter = 3 /\ tick = 8
    /\ data[2] = I(4) /\ data[3] = I(200)

\* ---------------------------------------------------------------------- C9
\* the addresses that hold the program text
ProgramRegion == {a \in DOMAIN data : program_start <= a /\ a < memory_size}

\* C9: program-region isolation.  No step latches a data address inside the
\* program region or changes a word of it, so an instruction fetch that
\* returned the loaded instruction still does after the step.
ProgramRegionIsolated ==
    [][/\ ~(IsInt(data_address') /\ data_address'.int \in ProgramRegion)
       /\ \A a \in ProgramRegion : data'[a] = data[a]
       /\ \A p \in 0..(program_len - 1) :
            (get_instruction(M, p).st = "ok" /\ get_instruction(M, p).val = code[p])
            => get_instruction([M EXCEPT !.data = data'], p).val = code[p]
      ]_vars

\* --------------------------------------------------------------------- C10
\* no instruction has run since Memory was constructed
AtConstruction == status = "run" /\ instruct_counter = 0

RoundTrip ==
    status \in {"loaded", "unreadable"} =>
      /\ loaded.st = "ok"
      /\ loaded.code = code
      /\ loaded.data = data_seg

\* --------------------------------------------------------------------- C12
\* the elements below the top n of the stack are the same after the step
BelowUnchanged(n) == \A i \in 0..(head - n - 1) : stack'[i] = stack[i]

\* C12 as claimed: ROT on [.., c, b, a] (a the top) keeps the depth, makes
\* the old second b the top and the old top a the second, leaves the third
\* c in place and the elements below the top three unchanged.
RotExchangesTopTwo ==
    [][(Decoded({Opcode.ROT}) /\ head >= 3) =>
         /\ status' = "run" /\ head' = head
         /\ stack'[head - 1] = stack[head - 2]
         /\ stack'[head - 2] = stack[head - 1]
         /\ stack'[head - 3] = stack[head - 3]
         /\ BelowUnchanged(3)
      ]_vars

\* C12 amended: ROT on [.., c, b, a] (a the top) keeps the depth and leaves
\* [.., b, a, c]: the old third c becomes the top, the old top a the second
\* and the old second b the third; the elements below the top three are
\* unchanged.
RotBringsThirdToTop ==
    [][(Decoded({Opcode.ROT}) /\ head >= 3) =>
         /\ status' = "run" /\ head' = head
         /\ stack'[head - 1] = stack[head - 3]
         /\ stack'[head - 2] = stack[head - 1]
         /\ stack'[head - 3] = stack[head - 2]
         /\ BelowUnchanged(3)
      ]_vars

\* PUSH 5, PUSH 1, PUSH 2, PUSH 3, ROT, HALT ran: [5, 1, 2, 3] became
\* [5, 2, 3, 1]
RotWitness ==
    /\ status = "stopped" /\ instruct_counter = 5 /\ head = 4
    /\ stack[0] = I(5) /\ stack[1] = I(2) /\ stack[2] = I(3) /\ stack[3] = I(1)

\* --------------------------------------------------------------------- C13
\* C13: JNT.  A JNT with argument t on a non-empty stack removes exactly the
\* top element x and changes nothing else on the stack or in memory; the
\* program counter becomes pc + 1 when x = -1 and t for every other x.
JntBranch ==
    [][(Decoded({Opcode.JNT}) /\ "arg" \in DOMAIN Fetched.val /\ head >= 1) =>
         LET x == stack[head - 1]
             t == Fetched.val.arg.int
         IN /\ status' = "run" /\ head' = head - 1
            /\ BelowUnchanged(1)
            /\ data' = data
            /\ pc' = IF ~IsDict(x) /\ NumEq(x, -1) THEN pc + 1 ELSE t
            /\ x \in {I(0), I(1), I(2), I(200)} => pc' = t
      ]_vars

\* the loop PUSH 0, READ_DIR, .., LT, JNT 0, HALT read 200, compared it with
\* 66, popped 0 and jumped back, then read 65, popped -1 and fell through
JntWitness ==
    /\ status = "stopped" /\ AtOpcode(Opcode.HALT) /\ pc = 8 /\ head = 0
    /\ stack[0] = I(-1) /\ instruct_counter = 16
    /\ output_buffer = << <<50, 48, 48>>, <<65>> >>

\* --------------------------------------------------------------------- C14
\* an ALU instruction of the set ops is fetched with ints as its operands
AluAt(ops, n) ==
    /\ Decoded(ops) /\ head >= n
    /\ \A i \in 1..n : IsInt(stack[head - i])

\* C14: binary and unary ALU instructions.  With a the second element and b
\* the top, PLUS, MULT, MOD (b > 0), LT and POW (a >= 0) replace the two by
\* a + b, a * b, a mod b, -1 if a < b else 0, and b ** a, the depth going
\* down by one; NEG and INVERT replace the top b by -b and -(b + 1), the
\* depth unchanged; the elements below the operands are unchanged.
AluResults ==
    [][/\ \A op \in {Opcode.PLUS, Opcode.MULT, Opcode.MOD, Opcode.LT, Opcode.POW} :
            LET a == stack[head - 2].int
                b == stack[head - 1].int
            IN (/\ AluAt({op}, 2)
                /\ op = Opcode.MOD => b > 0
                /\ op = Opcode.POW => a >= 0) =>
                 /\ status' = "run" /\ head' = head - 1
                 /\ stack'[head' - 1] =
                      I(CASE op = Opcode.PLUS -> a + b
                          [] op = Opcode.MULT -> a * b
                          [] op = Opcode.MOD -> a % b
                          [] op = Opcode.LT -> IF a < b THEN -1 ELSE 0
                          [] op = Opcode.POW -> IntPow(b, a))
                 /\ BelowUnchanged(2)
       /\ \A op \in {Opcode.NEG, Opcode.INV} :
            LET b == stack[head - 1].int
            IN AluAt({op}, 1) =>
                 /\ status' = "run" /\ head' = head
                 /\ stack'[head' - 1] = I(IF op = Opcode.NEG THEN -b ELSE -(b + 1))
                 /\ BelowUnchanged(1)
      ]_vars

\* PUSH 7, PUSH 4, PUSH 2, POW, HALT ran: a = 4, b = 2, and 2 ** 4 = 16 lies
\* above the untouched 7
AluResultsWitness ==
    /\ status = "stopped" /\ instruct_counter = 4 /\ head = 2
    /\ stack[0] = I(7) /\ stack[1] = I(16) /\ alu = I(16)

\* --------------------------------------------------------------------- C15
\* an ordinary data address: a word of the data memory 2..127, not a port
OrdinaryAddr(v) == IsInt(v) /\ 2 <= v.int /\ v.int < ProgramBase

\* C15: READ_NDR, the auto-increment read.  With the top p and q = mem[p]
\* ordinary data addresses, READ_NDR replaces p by mem[q], leaves the depth
\* and the lower elements unchanged, sets mem[p] to q + 1 and changes no
\* other memory word; it completes whenever the stack has two free slots.
ReadIndirectEffect ==
    [][(/\ Decoded({Opcode.READ_NDR}) /\ head >= 1
        /\ OrdinaryAddr(stack[head - 1])
        /\ OrdinaryAddr(data[stack[head - 1].int])) =>
         LET p == stack[head - 1].int
             q == data[p].int
         IN /\ head + 2 < StackSize => status' = "run"
            /\ status' = "run" =>
                 /\ head' = head
                 /\ stack'[head - 1] = data[q]
                 /\ BelowUnchanged(1)
                 /\ data' = [data EXCEPT ![p] = I(q + 1)]
      ]_vars

\* PUSH 2, READ_NDR, HALT ran on mem[2] = 3, mem[3] = 9: the top is 9, the
\* pointer mem[2] is 4
ReadIndirectWitness ==
    /\ status = "stopped" /\ instruct_counter = 2 /\ head = 1
    /\ stack[0] = I(9) /\ data[2] = I(4) /\ data[3] = I(9)

\* --------------------------------------------------------------------- C16
\* C16: WR_NDR, the auto-increment write.  On [.., v, p] (p the top) with p
\* and q = mem[p] ordinary data addresses, WR_NDR removes exactly v and p,
\* sets mem[p] to q + 1, sets mem[q] to v when q differs from p, and
\* changes no other memory word; it completes whenever the stack has a free
\* slot.
WriteIndirectEffect ==
    [][(/\ Decoded({Opcode.WR_NDR}) /\ head >= 2
        /\ OrdinaryAddr(stack[head - 1])
        /\ OrdinaryAddr(data[stack[head - 1].int])) =>
         LET p == stack[head - 1].int
             q == data[p].int
             v == stack[head - 2]
         IN /\ head + 1 < StackSize => status' = "run"
            /\ status' = "run" =>
                 /\ head' = head - 2
                 /\ BelowUnchanged(2)
                 /\ data'[p] = I(q + 1)
                 /\ q # p => data'[q] = v
                 /\ DOMAIN data' = DOMAIN data
                 /\ \A a \in DOMAIN data \ {p, q} : data'[a] = data[a]
      ]_vars

\* PUSH 7, PUSH 1, PUSH 4, WR_NDR, HALT ran on the self-pointer mem[4] = 4:
\* the value 1 went to address 4 and the pointer written after it left 5
\* there; the 7 below is all that is left on the stack
WriteIndirectWitness ==
    /\ status = "stopped" /\ instruct_counter = 4 /\ head = 1
    /\ stack[0] = I(7) /\ stack[1] = I(1) /\ data[4] = I(5) /\ data[3] = I(9)

\* --------------------------------------------------------------------- C17
\* no instruction of the program is a jump
StraightLine ==
    \A i \in DOMAIN code : code[i].opcode \notin {Opcode.JMP, Opcode.JNT}

\* C17: HALT.  Executing HALT ends the run at once and leaves the program
\* counter, the tick counter, the stack, memory, the input queue and the
\* output as they were; the HALT is not counted, so a run of k instructions
\* followed by HALT returns the count k (in a program without jumps, the
\* position of the HALT).
HaltFrame ==
    /\ [][Decoded({Opcode.HALT}) =>
            /\ status' = "stopped"
            /\ UNCHANGED <<pc, tick, stack, head, data, data_address,
                           input_buffer, output_buffer, instruct_counter>>
         ]_vars
    /\ []((status = "stopped" /\ AtOpcode(Opcode.HALT) /\ StraightLine)
            => instruct_counter = pc)

\* BEGIN, NOP, HALT ran: two instructions counted, two ticks, stopped at HALT
HaltWitness ==
    /\ status = "stopped" /\ AtOpcode(Opcode.HALT) /\ code[0] = Ins(Opcode.BEGIN)
    /\ pc = 2 /\ instruct_counter = 2 /\ tick = 2

\* --------------------------------------------------------------------- C18
\* C18: instruction fetch bounds.  For every value the program counter takes
\* in a run, negative values and values at or beyond the program length
\* included, get_instruction(pc) returns the loaded instruction number pc
\* when 0 <= pc < program_len and fails otherwise; it never returns a word
\* that is not an instruction of the loaded program.
FetchBounds ==
    status = "run" =>
      /\ Fetched.st = "ok" <=> (0 <= pc /\ pc < program_len)
      /\ Fetched.st = "ok" => pc \in DOMAIN code /\ Fetched.val = code[pc]

\* --------------------------------------------------------------------- C19
\* C19: bounded addressing.  In every state the latched data address a
\* satisfies 0 <= a < memory_size and designates a word of the memory list.
AddressInMemory ==
    /\ IsInt(data_address)
    /\ 0 <= data_address.int /\ data_address.int < memory_size
    /\ data_address.int \in DOMAIN data

\* --------------------------------------------------------------------- C20
\* the ALU instructions that compute a value
Computing ==
    {Opcode.MOD, Opcode.PLUS, Opcode.MULT, Opcode.POW, Opcode.LT, Opcode.NEG,
     Opcode.INV}

\* C20: DIV computes nothing.  DIV on a stack of at least two elements
\* removes the top two and pushes the accumulator, which it leaves as it
\* was; the accumulator is 0 when the run starts and only a MOD, PLUS, MULT,
\* POW, LT, NEG or INVERT changes it, to the result that instruction pushes;
\* so the value DIV pushes is that of the most recent such instruction, or
\* 0, whatever the two operands are.
DivPushesAccumulator ==
    /\ [](AtConstruction => alu = I(0))
    /\ [][/\ (Decoded({Opcode.DIV}) /\ head >= 2) =>
               /\ status' = "run" /\ head' = head - 1
               /\ stack'[head' - 1] = alu
               /\ alu' = alu
               /\ BelowUnchanged(2)
          /\ alu' # alu =>
               /\ Decoded(Computing)
               /\ status' = "run" /\ stack'[head' - 1] = alu'
         ]_vars

\* PUSH 2, PUSH 3, MULT, PUSH 8, PUSH 4, DIV, HALT ran: DIV took 8 and 4
\* off the stack and pushed the 6 the MULT had left in the accumulator
DivWitness ==
    /\ status = "stopped" /\ instruct_counter = 6 /\ head = 2
    /\ stack[0] = I(6) /\ stack[1] = I(6) /\ stack[2] = I(4) /\ alu = I(6)
====
